---------------------------- MODULE Spec2Model ----------------------------
(***************************************************************************)
(* Model of music-recommendation/app.py: the Flask application with the    *)
(* routes / (index) and /detect_emotion, and the playlist provider         *)
(* get_spotify_playlists.                                                  *)
(*                                                                         *)
(* Representation.  A Python str is the tuple of its Unicode code points,  *)
(* so that lower(), strip(), the `in` substring test and the Devanagari    *)
(* range test are computed on characters.  A value that may be None is a   *)
(* tuple of length <= 1 (None == <<>>, Some(x) == <<x>>).  A dict is the    *)
(* tuple of its (key, value) pairs in insertion order.  A confidence is an *)
(* integer in units of 1/10000 (0.3 is 3000, 1.0 is 10000).                *)
(***************************************************************************)
EXTENDS Integers, Sequences, FiniteSets

(* Bound of the model: a request text is the join of at most MaxFrags of the
   text fragments below. *)
MaxFrags == 2

(* String literals of app.py, as tuples of Unicode code points. *)
happy == <<104, 97, 112, 112, 121>>
sad == <<115, 97, 100>>
angry == <<97, 110, 103, 114, 121>>
energetic == <<101, 110, 101, 114, 103, 101, 116, 105, 99>>
fear == <<102, 101, 97, 114>>
calm == <<99, 97, 108, 109>>
surprise == <<115, 117, 114, 112, 114, 105, 115, 101>>
excited == <<101, 120, 99, 105, 116, 101, 100>>
neutral == <<110, 101, 117, 116, 114, 97, 108>>
chill == <<99, 104, 105, 108, 108>>
disgust == <<100, 105, 115, 103, 117, 115, 116>>
dark == <<100, 97, 114, 107>>
joy == <<106, 111, 121>>
anticipation == <<97, 110, 116, 105, 99, 105, 112, 97, 116, 105, 111, 110>>
trust == <<116, 114, 117, 115, 116>>
positive == <<112, 111, 115, 105, 116, 105, 118, 101>>
negative == <<110, 101, 103, 97, 116, 105, 118, 101>>
worry == <<119, 111, 114, 114, 121>>
love == <<108, 111, 118, 101>>
romantic == <<114, 111, 109, 97, 110, 116, 105, 99>>

(* emotion_to_mood (app.py 28-43): the dict as its (key, value) pairs in insertion order. *)
emotion_to_mood ==
  << <<happy, happy>>,
     <<sad, sad>>,
     <<angry, energetic>>,
     <<fear, calm>>,
     <<surprise, excited>>,
     <<neutral, chill>>,
     <<disgust, dark>>,
     <<joy, happy>>,
     <<anticipation, excited>>,
     <<trust, calm>>,
     <<positive, happy>>,
     <<negative, sad>>,
     <<worry, calm>>,
     <<love, romantic>> >>

(* emotion_keywords (app.py 111-118): one table, English and Devanagari keywords in the
   same list of each label, in insertion order. *)
emotion_keywords ==
  << [key |-> happy, keywords |-> <<
         <<104, 97, 112, 112, 121>>,  \* happy
         <<106, 111, 121>>,  \* joy
         <<101, 120, 99, 105, 116, 101, 100>>,  \* excited
         <<103, 114, 101, 97, 116>>,  \* great
         <<119, 111, 110, 100, 101, 114, 102, 117, 108>>,  \* wonderful
         <<97, 109, 97, 122, 105, 110, 103>>,  \* amazing
         <<102, 97, 110, 116, 97, 115, 116, 105, 99>>,  \* fantastic
         <<108, 111, 118, 101>>,  \* love
         <<103, 108, 97, 100>>,  \* glad
         <<99, 104, 101, 101, 114, 102, 117, 108>>,  \* cheerful
         <<100, 101, 108, 105, 103, 104, 116, 101, 100>>,  \* delighted
         <<116, 104, 114, 105, 108, 108, 101, 100>>,  \* thrilled
         <<101, 120, 99, 101, 108, 108, 101, 110, 116>>,  \* excellent
         <<103, 111, 111, 100>>,  \* good
         <<97, 119, 101, 115, 111, 109, 101>>,  \* awesome
         <<112, 101, 114, 102, 101, 99, 116>>,  \* perfect
         <<2326, 2369, 2358>>,  \* U+0916 U+0941 U+0936
         <<2326, 2369, 2358, 2368>>,  \* U+0916 U+0941 U+0936 U+0940
         <<2326, 2369, 2358, 32, 2361, 2370, 2305>>,  \* U+0916 U+0941 U+0936  U+0939 U+0942 U+0901
         <<2350, 2332, 2364, 2366>>,  \* U+092E U+091C U+093C U+093E
         <<2313, 2340, 2381, 2360, 2366, 2361, 2367, 2340>> >>]  \* U+0909 U+0924 U+094D U+0938 U+093E U+0939 U+093F U+0924
     ,
     [key |-> sad, keywords |-> <<
         <<115, 97, 100>>,  \* sad
         <<117, 110, 104, 97, 112, 112, 121>>,  \* unhappy
         <<100, 101, 112, 114, 101, 115, 115, 101, 100>>,  \* depressed
         <<108, 111, 110, 101, 108, 121>>,  \* lonely
         <<109, 105, 115, 101, 114, 97, 98, 108, 101>>,  \* miserable
         <<100, 111, 119, 110>>,  \* down
         <<98, 108, 117, 101>>,  \* blue
         <<100, 105, 115, 97, 112, 112, 111, 105, 110, 116, 101, 100>>,  \* disappointed
         <<117, 112, 115, 101, 116>>,  \* upset
         <<104, 117, 114, 116>>,  \* hurt
         <<104, 101, 97, 114, 116, 98, 114, 111, 107, 101, 110>>,  \* heartbroken
         <<99, 114, 121, 105, 110, 103>>,  \* crying
         <<116, 101, 97, 114, 115>>,  \* tears
         <<97, 119, 102, 117, 108>>,  \* awful
         <<116, 101, 114, 114, 105, 98, 108, 101>>,  \* terrible
         <<98, 97, 100>>,  \* bad
         <<2313, 2342, 2366, 2360>>,  \* U+0909 U+0926 U+093E U+0938
         <<2342, 2369, 2326>>,  \* U+0926 U+0941 U+0916
         <<2335, 2370, 2335>>,  \* U+091F U+0942 U+091F
         <<2342, 2369, 2326, 2368>> >>]  \* U+0926 U+0941 U+0916 U+0940
     ,
     [key |-> angry, keywords |-> <<
         <<97, 110, 103, 114, 121>>,  \* angry
         <<109, 97, 100>>,  \* mad
         <<102, 117, 114, 105, 111, 117, 115>>,  \* furious
         <<105, 114, 114, 105, 116, 97, 116, 101, 100>>,  \* irritated
         <<97, 110, 110, 111, 121, 101, 100>>,  \* annoyed
         <<102, 114, 117, 115, 116, 114, 97, 116, 101, 100>>,  \* frustrated
         <<114, 97, 103, 101>>,  \* rage
         <<112, 105, 115, 115, 101, 100>>,  \* pissed
         <<104, 97, 116, 101>>,  \* hate
         <<100, 105, 115, 103, 117, 115, 116, 101, 100>>,  \* disgusted
         <<111, 117, 116, 114, 97, 103, 101, 100>>,  \* outraged
         <<2327, 2369, 2360, 2381, 2360, 2366>>,  \* U+0917 U+0941 U+0938 U+094D U+0938 U+093E
         <<2325, 2381, 2352, 2379, 2343, 2367, 2340>>,  \* U+0915 U+094D U+0930 U+094B U+0927 U+093F U+0924
         <<2344, 2366, 2352, 2366, 2332, 2364>> >>]  \* U+0928 U+093E U+0930 U+093E U+091C U+093C
     ,
     [key |-> fear, keywords |-> <<
         <<115, 99, 97, 114, 101, 100>>,  \* scared
         <<97, 102, 114, 97, 105, 100>>,  \* afraid
         <<102, 101, 97, 114>>,  \* fear
         <<97, 110, 120, 105, 111, 117, 115>>,  \* anxious
         <<119, 111, 114, 114, 105, 101, 100>>,  \* worried
         <<110, 101, 114, 118, 111, 117, 115>>,  \* nervous
         <<116, 101, 114, 114, 105, 102, 105, 101, 100>>,  \* terrified
         <<102, 114, 105, 103, 104, 116, 101, 110, 101, 100>>,  \* frightened
         <<112, 97, 110, 105, 99>>,  \* panic
         <<2337, 2352>>,  \* U+0921 U+0930
         <<2328, 2348, 2352, 2366, 2361, 2335>>,  \* U+0918 U+092C U+0930 U+093E U+0939 U+091F
         <<2337, 2352, 2366>> >>]  \* U+0921 U+0930 U+093E
     ,
     [key |-> surprise, keywords |-> <<
         <<115, 117, 114, 112, 114, 105, 115, 101, 100>>,  \* surprised
         <<115, 104, 111, 99, 107, 101, 100>>,  \* shocked
         <<97, 109, 97, 122, 101, 100>>,  \* amazed
         <<97, 115, 116, 111, 110, 105, 115, 104, 101, 100>>,  \* astonished
         <<119, 111, 119>>,  \* wow
         <<105, 110, 99, 114, 101, 100, 105, 98, 108, 101>>,  \* incredible
         <<117, 110, 98, 101, 108, 105, 101, 118, 97, 98, 108, 101>>,  \* unbelievable
         <<2361, 2376, 2352, 2366, 2344>>,  \* U+0939 U+0948 U+0930 U+093E U+0928
         <<2330, 2325, 2367, 2340>> >>]  \* U+091A U+0915 U+093F U+0924
     ,
     [key |-> neutral, keywords |-> <<
         <<111, 107, 97, 121>>,  \* okay
         <<102, 105, 110, 101>>,  \* fine
         <<97, 108, 114, 105, 103, 104, 116>>,  \* alright
         <<110, 111, 114, 109, 97, 108>>,  \* normal
         <<109, 101, 104>>,  \* meh
         <<119, 104, 97, 116, 101, 118, 101, 114>>,  \* whatever
         <<2336, 2368, 2325>>,  \* U+0920 U+0940 U+0915
         <<2309, 2330, 2381, 2331, 2366>>,  \* U+0905 U+091A U+094D U+091B U+093E
         <<2360, 2366, 2350, 2366, 2344, 2381, 2351>> >>]  \* U+0938 U+093E U+092E U+093E U+0928 U+094D U+092F
  >>

(* sample_playlists_hi (app.py 230-246): (mood, list) pairs in insertion order. *)
sample_playlists_hi ==
  << <<happy,
       << [name |-> "Bollywood Happy Hits", url |-> "https://open.spotify.com/playlist/37i9dQZF1DX2taZN6Kf4K1",
           image |-> "https://via.placeholder.com/300x300/FFD700/000000?text=Bollywood+Happy"],
          [name |-> "Top Bollywood", url |-> "https://open.spotify.com/playlist/37i9dQZF1DXcZ6X5YK6xG6",
           image |-> "https://via.placeholder.com/300x300/FF6B9D/000000?text=Top+Bollywood"],
          [name |-> "Bollywood Retro", url |-> "https://open.spotify.com/playlist/37i9dQZF1DX2yvmlOdMYzV",
           image |-> "https://via.placeholder.com/300x300/00D4FF/000000?text=Bollywood+Retro"] >> >>,
     <<sad,
       << [name |-> "Bollywood Sad", url |-> "https://open.spotify.com/playlist/37i9dQZF1DWSf2RDTDayIx",
           image |-> "https://via.placeholder.com/300x300/4169E1/FFFFFF?text=Bollywood+Sad"],
          [name |-> "Sad Bollywood", url |-> "https://open.spotify.com/playlist/37i9dQZF1DX7qK8ma5wgG1",
           image |-> "https://via.placeholder.com/300x300/708090/FFFFFF?text=Sad+Bollywood"],
          [name |-> "Melancholic Bollywood", url |-> "https://open.spotify.com/playlist/37i9dQZF1DWX83CujKHHOn",
           image |-> "https://via.placeholder.com/300x300/2F4F4F/FFFFFF?text=Melancholy+Bollywood"] >> >>,
     <<chill,
       << [name |-> "Bollywood Mellow", url |-> "https://open.spotify.com/playlist/37i9dQZF1DX889U0CL85jj",
           image |-> "https://via.placeholder.com/300x300/9370DB/000000?text=Bollywood+Chill"],
          [name |-> "Indie Hindi Chill", url |-> "https://open.spotify.com/playlist/37i9dQZF1DWWQRwui0ExPn",
           image |-> "https://via.placeholder.com/300x300/BA55D3/000000?text=Indie+Hindi"],
          [name |-> "Romantic Bollywood", url |-> "https://open.spotify.com/playlist/37i9dQZF1DX50QitC6Oqtn",
           image |-> "https://via.placeholder.com/300x300/FF1493/FFFFFF?text=Romantic+Bollywood"] >> >> >>

(* sample_playlists (app.py 249-290): (mood, list) pairs in insertion order. *)
sample_playlists ==
  << <<happy,
       << [name |-> "Happy Hits", url |-> "https://open.spotify.com/playlist/37i9dQZF1DXdPec7aLTmlC",
           image |-> "https://via.placeholder.com/300x300/FFD700/000000?text=Happy+Hits"],
          [name |-> "Feel Good Indie", url |-> "https://open.spotify.com/playlist/37i9dQZF1DX2sUQwD7tbmL",
           image |-> "https://via.placeholder.com/300x300/FF6B9D/000000?text=Feel+Good"],
          [name |-> "Mood Booster", url |-> "https://open.spotify.com/playlist/37i9dQZF1DX3rxVfibe1L0",
           image |-> "https://via.placeholder.com/300x300/00D4FF/000000?text=Mood+Booster"] >> >>,
     <<sad,
       << [name |-> "Life Sucks", url |-> "https://open.spotify.com/playlist/37i9dQZF1DX7qK8ma5wgG1",
           image |-> "https://via.placeholder.com/300x300/4169E1/FFFFFF?text=Sad+Songs"],
          [name |-> "Sad Indie", url |-> "https://open.spotify.com/playlist/37i9dQZF1DX59NCqCqJtoH",
           image |-> "https://via.placeholder.com/300x300/708090/FFFFFF?text=Sad+Indie"],
          [name |-> "Melancholy", url |-> "https://open.spotify.com/playlist/37i9dQZF1DWX83CujKHHOn",
           image |-> "https://via.placeholder.com/300x300/2F4F4F/FFFFFF?text=Melancholy"] >> >>,
     <<energetic,
       << [name |-> "Beast Mode", url |-> "https://open.spotify.com/playlist/37i9dQZF1DX76Wlfdnj7AP",
           image |-> "https://via.placeholder.com/300x300/FF4500/000000?text=Beast+Mode"],
          [name |-> "Power Workout", url |-> "https://open.spotify.com/playlist/37i9dQZF1DX70RN3TfWWJh",
           image |-> "https://via.placeholder.com/300x300/DC143C/000000?text=Power+Workout"],
          [name |-> "Adrenaline", url |-> "https://open.spotify.com/playlist/37i9dQZF1DX0pH2SQMRXnC",
           image |-> "https://via.placeholder.com/300x300/8B0000/FFFFFF?text=Adrenaline"] >> >>,
     <<calm,
       << [name |-> "Peaceful Piano", url |-> "https://open.spotify.com/playlist/37i9dQZF1DX4sWSpwq3LiO",
           image |-> "https://via.placeholder.com/300x300/87CEEB/000000?text=Peaceful+Piano"],
          [name |-> "Calm Vibes", url |-> "https://open.spotify.com/playlist/37i9dQZF1DWU0ScTcjJBdj",
           image |-> "https://via.placeholder.com/300x300/ADD8E6/000000?text=Calm+Vibes"],
          [name |-> "Relaxing Sounds", url |-> "https://open.spotify.com/playlist/37i9dQZF1DWZd79rJ6a7lp",
           image |-> "https://via.placeholder.com/300x300/B0E0E6/000000?text=Relaxing"] >> >>,
     <<excited,
       << [name |-> "Party Time", url |-> "https://open.spotify.com/playlist/37i9dQZF1DXaXB8fQg7xif",
           image |-> "https://via.placeholder.com/300x300/FF1493/000000?text=Party+Time"],
          [name |-> "Dance Party", url |-> "https://open.spotify.com/playlist/37i9dQZF1DX4dyzvuaRJ0n",
           image |-> "https://via.placeholder.com/300x300/FF69B4/000000?text=Dance+Party"],
          [name |-> "Energy Boost", url |-> "https://open.spotify.com/playlist/37i9dQZF1DX3Sp0P28SIer",
           image |-> "https://via.placeholder.com/300x300/FFB6C1/000000?text=Energy+Boost"] >> >>,
     <<chill,
       << [name |-> "Chill Hits", url |-> "https://open.spotify.com/playlist/37i9dQZF1DX4WYpdgoIcn6",
           image |-> "https://via.placeholder.com/300x300/9370DB/000000?text=Chill+Hits"],
          [name |-> "Lofi Beats", url |-> "https://open.spotify.com/playlist/37i9dQZF1DWWQRwui0ExPn",
           image |-> "https://via.placeholder.com/300x300/BA55D3/000000?text=Lofi+Beats"],
          [name |-> "Chill Vibes", url |-> "https://open.spotify.com/playlist/37i9dQZF1DX889U0CL85jj",
           image |-> "https://via.placeholder.com/300x300/DDA0DD/000000?text=Chill+Vibes"] >> >>,
     <<romantic,
       << [name |-> "Romantic", url |-> "https://open.spotify.com/playlist/37i9dQZF1DX50QitC6Oqtn",
           image |-> "https://via.placeholder.com/300x300/FF1493/FFFFFF?text=Romantic"],
          [name |-> "Love Songs", url |-> "https://open.spotify.com/playlist/37i9dQZF1DX0UrRvztWcAU",
           image |-> "https://via.placeholder.com/300x300/FF69B4/FFFFFF?text=Love+Songs"],
          [name |-> "Date Night", url |-> "https://open.spotify.com/playlist/37i9dQZF1DX4OzrY981I1W",
           image |-> "https://via.placeholder.com/300x300/FFB6C1/000000?text=Date+Night"] >> >>,
     <<dark,
       << [name |-> "Dark & Stormy", url |-> "https://open.spotify.com/playlist/37i9dQZF1DX0XUfTFmNBRM",
           image |-> "https://via.placeholder.com/300x300/2F4F4F/FFFFFF?text=Dark"],
          [name |-> "Metal", url |-> "https://open.spotify.com/playlist/37i9dQZF1DWWOaP4H0w5b0",
           image |-> "https://via.placeholder.com/300x300/000000/FFFFFF?text=Metal"],
          [name |-> "Rock Hard", url |-> "https://open.spotify.com/playlist/37i9dQZF1DWXRqgorJj26U",
           image |-> "https://via.placeholder.com/300x300/1C1C1C/FFFFFF?text=Rock+Hard"] >> >> >>

(* search_queries (app.py 295-304): (mood, query terms) pairs. *)
search_queries ==
  << <<happy, << <<104, 97, 112, 112, 121>>, <<102, 101, 101, 108, 32, 103, 111, 111, 100>>, <<117, 112, 108, 105, 102, 116, 105, 110, 103>> >> >>  (* happy, feel good, uplifting *),
     <<sad, << <<115, 97, 100>>, <<109, 101, 108, 97, 110, 99, 104, 111, 108, 121>>, <<101, 109, 111, 116, 105, 111, 110, 97, 108>> >> >>  (* sad, melancholy, emotional *),
     <<energetic, << <<119, 111, 114, 107, 111, 117, 116>>, <<101, 110, 101, 114, 103, 101, 116, 105, 99>>, <<112, 111, 119, 101, 114>> >> >>  (* workout, energetic, power *),
     <<calm, << <<99, 97, 108, 109>>, <<112, 101, 97, 99, 101, 102, 117, 108>>, <<114, 101, 108, 97, 120, 105, 110, 103>> >> >>  (* calm, peaceful, relaxing *),
     <<excited, << <<112, 97, 114, 116, 121>>, <<100, 97, 110, 99, 101>>, <<117, 112, 98, 101, 97, 116>> >> >>  (* party, dance, upbeat *),
     <<chill, << <<99, 104, 105, 108, 108>>, <<108, 111, 102, 105>>, <<114, 101, 108, 97, 120>> >> >>  (* chill, lofi, relax *),
     <<romantic, << <<114, 111, 109, 97, 110, 116, 105, 99>>, <<108, 111, 118, 101, 32, 115, 111, 110, 103, 115>>, <<100, 97, 116, 101, 32, 110, 105, 103, 104, 116>> >> >>  (* romantic, love songs, date night *),
     <<dark, << <<100, 97, 114, 107>>, <<105, 110, 116, 101, 110, 115, 101>>, <<104, 101, 97, 118, 121>> >> >>  (* dark, intense, heavy *) >>

(***************************************************************************)
(* Python values and built-ins.                                            *)
(***************************************************************************)
None == <<>>
Some(x) == <<x>>

(* Truthiness of an optional str: None and '' are falsy. *)
Truthy(o) == o # None /\ o[1] # <<>>

(* str.lower() on the code points the model uses (ASCII and Devanagari). *)
Lower(s) == [i \in 1..Len(s) |-> IF s[i] >= 65 /\ s[i] <= 90 THEN s[i] + 32 ELSE s[i]]

(* str.isspace() of one code point. *)
IsSpace(c) == c \in {9, 10, 11, 12, 13, 28, 29, 30, 31, 32, 133, 160}

(* str.strip(): leading and trailing whitespace removed. *)
Strip(s) ==
  LET keep == {i \in 1..Len(s) : ~IsSpace(s[i])}
      first == CHOOSE i \in keep : \A j \in keep : i <= j
      last == CHOOSE i \in keep : \A j \in keep : j <= i
  IN  IF keep = {} THEN <<>> ELSE SubSeq(s, first, last)

(* keyword in text: substring containment. *)
Contains(keyword, text) ==
  \E i \in 0..(Len(text) - Len(keyword)) :
     \A j \in 1..Len(keyword) : text[i + j] = keyword[j]

(* dict.get(key, default) on a tuple of (key, value) pairs. *)
dict_get(d, key, default) ==
  IF \E i \in 1..Len(d) : d[i][1] = key
  THEN d[CHOOSE i \in 1..Len(d) : d[i][1] = key][2]
  ELSE default

(* max(d, key=d.get): the first key, in insertion order, whose value is the
   greatest. *)
max_key(d) ==
  d[CHOOSE i \in 1..Len(d) :
       /\ \A j \in 1..Len(d) : d[j][2] <= d[i][2]
       /\ \A j \in 1..(i - 1) : d[j][2] < d[i][2]][1]

(* min(a, b) *)
min(a, b) == IF a <= b THEN a ELSE b

(***************************************************************************)
(* Keyword scoring, app.py 120-129.                                        *)
(***************************************************************************)
(* A variant of the score (see the properties): any(...) in place of
   sum(...). *)
score_from_any(keywords, text, i) ==
  IF \E j \in i..Len(keywords) : Contains(keywords[j], text) THEN 1 ELSE 0

(* sum(1 for keyword in keywords if keyword in text), from position i on. *)
RECURSIVE score_from(_, _, _)
score_from(keywords, text, i) ==
  IF i > Len(keywords) THEN 0
  ELSE (IF Contains(keywords[i], text) THEN 1 ELSE 0) + score_from(keywords, text, i + 1)

(* The loop of lines 121-125 from table row i on: a label enters
   emotion_scores, in table order, when its score is positive. *)
RECURSIVE scores_from(_, _)
scores_from(text, i) ==
  IF i > Len(emotion_keywords) THEN <<>>
  ELSE LET score == score_from(emotion_keywords[i].keywords, text, 1)
       IN  (IF score > 0 THEN << <<emotion_keywords[i].key, score>> >> ELSE <<>>)
           \o scores_from(text, i + 1)

emotion_scores(text) == scores_from(text, 1)

(* re.search(r"[\u0900-\u097F]", text) *)
is_hindi(text) == \E i \in 1..Len(text) : text[i] >= 2304 /\ text[i] <= 2431

(***************************************************************************)
(* Requests.  data is the parsed JSON body: the keys 'image' and 'text'    *)
(* are optional.  An image is one of three kinds: "malformed" (no comma or *)
(* invalid base64: line 70 raises), "undecodable" (cv2.imdecode returns    *)
(* None) and "picture" (decodes to an image).                              *)
(***************************************************************************)
Fragments ==
  << <<32>>,                                   \* ' '
     <<104, 109>>,                             \* 'hm'
     <<72, 97, 112, 112, 121>>,                \* 'Happy'
     <<115, 97, 100>>,                         \* 'sad'
     <<104, 97, 112, 112, 121, 32, 106, 111, 121, 32, 108, 111, 118, 101, 32,
       103, 108, 97, 100, 32, 103, 111, 111, 100, 32, 103, 114, 101, 97, 116>>,
                                               \* 'happy joy love glad good great'
     <<2326, 2369, 2358, 32, 2361, 2370, 2305>>,  \* U+0916 U+0941 U+0936 ' ' U+0939 U+0942 U+0901
     <<2313, 2342, 2366, 2360>>,                \* U+0909 U+0926 U+093E U+0938
     <<2350, 2376, 2306>> >>                   \* U+092E U+0948 U+0902

(* The texts of n fragments joined by single spaces. *)
RECURSIVE TextsOf(_)
TextsOf(n) ==
  IF n = 0 THEN {<<>>}
  ELSE IF n = 1 THEN {Fragments[i] : i \in 1..Len(Fragments)}
  ELSE {t \o <<32>> \o Fragments[i] : t \in TextsOf(n - 1), i \in 1..Len(Fragments)}

Texts == UNION {TextsOf(n) : n \in 0..MaxFrags}

ImageKinds == {"malformed", "undecodable", "picture"}

Bodies ==
  [has_image : {FALSE}, image : {"none"}, has_text : {FALSE}, text : {<<>>}]
    \cup [has_image : {TRUE}, image : ImageKinds, has_text : {FALSE}, text : {<<>>}]
    \cup [has_image : {FALSE}, image : {"none"}, has_text : {TRUE}, text : Texts]
    \cup [has_image : {TRUE}, image : ImageKinds, has_text : {TRUE}, text : Texts]

NoBody == [has_image |-> FALSE, image |-> "none", has_text |-> FALSE, text |-> <<>>]

(***************************************************************************)
(* The collaborators' answers, chosen by the environment.                  *)
(***************************************************************************)
(* Labels the facial classifier can name. *)
Upper_LOVE == <<76, 79, 86, 69>>                          \* 'LOVE'
contempt == <<99, 111, 110, 116, 101, 109, 112, 116>>     \* 'contempt'

FacialLabels ==
  {emotion_to_mood[i][1] : i \in 1..Len(emotion_to_mood)} \cup {Upper_LOVE, contempt}

(* DeepFace.analyze: raises, or returns a dict or a list of them.  A result
   res is a dict or not; its 'emotion' is a dict of raw scores (here in
   hundredths: 40.0 is 4000, 0.9 is 90), <<>> when missing or empty; its
   'dominant_emotion' is a label or missing. *)
EmotionDicts ==
  {<< <<l, 4000>>, <<(IF l = neutral THEN sad ELSE neutral), 3000>> >> : l \in FacialLabels}
    \cup { << <<happy, 90>>, <<sad, 5>> >>,
           << <<happy, 0>>, <<sad, 0>> >>,
           << <<sad, 500>>, <<angry, 10000>> >>,
           << <<fear, 2000>>, <<surprise, 2000>> >> }

NoResult == [is_dict |-> FALSE, emotion |-> <<>>, dominant_emotion |-> None]

AnalyzeOutcomes ==
  { [raises |-> TRUE, is_list |-> FALSE, results |-> <<NoResult>>],
    [raises |-> FALSE, is_list |-> TRUE, results |-> <<>>],
    [raises |-> FALSE, is_list |-> FALSE, results |-> <<NoResult>>],
    [raises |-> FALSE, is_list |-> FALSE, results |->
       <<[is_dict |-> TRUE, emotion |-> <<>>, dominant_emotion |-> None]>>],
    [raises |-> FALSE, is_list |-> FALSE, results |->
       <<[is_dict |-> TRUE, emotion |-> <<>>, dominant_emotion |-> Some(sad)]>>],
    [raises |-> FALSE, is_list |-> TRUE, results |->
       <<[is_dict |-> TRUE, emotion |-> << <<angry, 6000>>, <<happy, 4000>> >>,
          dominant_emotion |-> Some(angry)]>>] }
    \cup { [raises |-> FALSE, is_list |-> FALSE, results |->
             <<[is_dict |-> TRUE, emotion |-> e, dominant_emotion |-> Some(max_key(e))]>>]
           : e \in EmotionDicts }

NoAnalyze == [raises |-> TRUE, is_list |-> FALSE, results |-> <<NoResult>>]

(* What the facial step meets: whether `from deepface import DeepFace`
   succeeds, and what DeepFace.analyze answers for a decoded picture. *)
FacialEnvs(data) ==
  IF ~data.has_image THEN {[deepface |-> FALSE, analyze |-> NoAnalyze]}
  ELSE {[deepface |-> FALSE, analyze |-> NoAnalyze]}
         \cup [deepface : {TRUE},
               analyze : IF data.image = "picture" THEN AnalyzeOutcomes ELSE {NoAnalyze}]

(* te.get_emotion: raises, or returns a dict label -> score (the keys in the
   library's order), possibly empty. *)
te_Happy == <<72, 97, 112, 112, 121>>
te_Angry == <<65, 110, 103, 114, 121>>
te_Surprise == <<83, 117, 114, 112, 114, 105, 115, 101>>
te_Sad == <<83, 97, 100>>
te_Fear == <<70, 101, 97, 114>>

TeScores(h, a, su, sa, f) ==
  << <<te_Happy, h>>, <<te_Angry, a>>, <<te_Surprise, su>>, <<te_Sad, sa>>, <<te_Fear, f>> >>

TeOutcomes ==
  { [raises |-> TRUE, scores |-> <<>>],
    [raises |-> FALSE, scores |-> <<>>],
    [raises |-> FALSE, scores |-> TeScores(0, 0, 0, 0, 0)],
    [raises |-> FALSE, scores |-> TeScores(10000, 0, 0, 0, 0)],
    [raises |-> FALSE, scores |-> TeScores(0, 0, 0, 5000, 5000)],
    [raises |-> FALSE, scores |-> TeScores(2500, 2900, 0, 2500, 2100)],
    [raises |-> FALSE, scores |-> TeScores(2000, 2000, 3000, 1500, 1500)] }

NoTe == [raises |-> FALSE, scores |-> <<>>]

TeEnvs(data) == IF data.has_text THEN TeOutcomes ELSE {NoTe}

(* sp.search: raises (or answers in another shape), or returns at most
   `limit` items. *)
SearchOutcomes ==
  { [raises |-> TRUE, items |-> <<>>],
    [raises |-> FALSE, items |-> <<>>],
    [raises |-> FALSE, items |->
       << [name |-> "Mix", url |-> "https://open.spotify.com/playlist/a",
           images |-> <<"https://i.scdn.co/image/a">>],
          [name |-> "Radio", url |-> "https://open.spotify.com/playlist/b",
           images |-> <<>>] >>] }

NoSearch == [raises |-> TRUE, items |-> <<>>]

SearchEnvs(client) == IF client = "None" THEN {NoSearch} ELSE SearchOutcomes

(***************************************************************************)
(* detect_emotion, step by step.                                           *)
(***************************************************************************)
NoFacial == [facial_emotion |-> None, facial_confidence |-> 0]

(* A variant of the facial step (see the properties). *)
FacialDetection_neutral_on_error(data, fenv) ==
  IF ~data.has_image THEN NoFacial                       \* line 59
  ELSE IF ~fenv.deepface THEN NoFacial                   \* lines 62-66, 98-100
  ELSE IF data.image = "malformed" THEN NoFacial         \* line 70 raises: 94-97
  ELSE IF data.image = "undecodable" THEN NoFacial       \* lines 74-75
  ELSE IF fenv.analyze.raises
       THEN [facial_emotion |-> Some(neutral), facial_confidence |-> 0]
  ELSE IF fenv.analyze.is_list /\ fenv.analyze.results = <<>>
       THEN NoFacial                                     \* line 80 raises: 94-97
  ELSE LET res == fenv.analyze.results[1]                \* lines 79-82
           emotions_dict == IF res.is_dict THEN res.emotion ELSE <<>>
           top == max_key(emotions_dict)
           raw == dict_get(emotions_dict, top, 0)
       IN  IF emotions_dict # <<>>
           THEN [facial_emotion |-> Some(top),           \* lines 87-88
                 facial_confidence |->
                   IF \E i \in 1..Len(emotions_dict) : emotions_dict[i][2] > 100
                   THEN raw           \* raw / 100.0, in units of 1/10000
                   ELSE raw * 100]    \* raw, in units of 1/10000
           ELSE [facial_emotion |->                      \* lines 91-92
                   IF res.is_dict THEN res.dominant_emotion ELSE None,
                 facial_confidence |-> 0]

(* Facial emotion detection, lines 56-101. *)
FacialDetection(data, fenv) ==
  IF ~data.has_image THEN NoFacial                       \* line 59
  ELSE IF ~fenv.deepface THEN NoFacial                   \* lines 62-66, 98-100
  ELSE IF data.image = "malformed" THEN NoFacial         \* line 70 raises: 94-97
  ELSE IF data.image = "undecodable" THEN NoFacial       \* lines 74-75
  ELSE IF fenv.analyze.raises THEN NoFacial              \* line 77 raises: 94-97
  ELSE IF fenv.analyze.is_list /\ fenv.analyze.results = <<>>
       THEN NoFacial                                     \* line 80 raises: 94-97
  ELSE LET res == fenv.analyze.results[1]                \* lines 79-82
           emotions_dict == IF res.is_dict THEN res.emotion ELSE <<>>
           top == max_key(emotions_dict)
           raw == dict_get(emotions_dict, top, 0)
       IN  IF emotions_dict # <<>>
           THEN [facial_emotion |-> Some(top),           \* lines 87-88
                 facial_confidence |->
                   IF \E i \in 1..Len(emotions_dict) : emotions_dict[i][2] > 100
                   THEN raw           \* raw / 100.0, in units of 1/10000
                   ELSE raw * 100]    \* raw, in units of 1/10000
           ELSE [facial_emotion |->                      \* lines 91-92
                   IF res.is_dict THEN res.dominant_emotion ELSE None,
                 facial_confidence |-> 0]

(* The text step's result.  outcome: "skip" (line 173), "ok" (a text signal),
   "return400" (lines 138, 165), "fault" (lines 166-171).  language is
   "unbound" while line 129 has not run. *)
TextResult(outcome, text_emotion, text_confidence, language, te_called) ==
  [outcome |-> outcome, text_emotion |-> text_emotion,
   text_confidence |-> text_confidence, language |-> language,
   te_called |-> te_called]

(* Lines 106-129: whether the text branch is taken, the lower-cased stripped
   text, its keyword scores and its language. *)
TextFeatures(data) ==
  IF ~(data.has_text /\ Strip(data.text) # <<>>)                     \* line 106
  THEN [taken |-> FALSE, text |-> <<>>, emotion_scores |-> <<>>, is_hindi |-> FALSE]
  ELSE [taken |-> TRUE,
        text |-> Strip(Lower(data.text)),                            \* line 108
        emotion_scores |-> emotion_scores(Strip(Lower(data.text))),  \* 121-125
        is_hindi |-> is_hindi(Strip(Lower(data.text)))]              \* line 128

(* float(min(score / 5.0, 1.0)), lines 135, 152, 162. *)
keyword_confidence_uncapped(score) == score * 2000

keyword_confidence(score) == min(score * 2000, 10000)

(* Line 150: the keyword label replaces the classifier's. *)
keyword_overrides_at_threshold(keyword_score, te_score) ==
  keyword_score >= 2 \/ (keyword_score > 0 /\ te_score <= 3000)

keyword_overrides(keyword_score, te_score) ==
  keyword_score >= 2 \/ (keyword_score > 0 /\ te_score < 3000)

(* Lines 131-165 and 166-173: the text signal from the keyword scores and
   the classifier's answer. *)
TextDecision(ft, te) ==
  IF ~ft.taken THEN TextResult("skip", None, 0, "unbound", FALSE)    \* line 173
  ELSE IF ft.is_hindi
  THEN IF ft.emotion_scores # <<>>                                   \* 133-136
       THEN TextResult("ok", Some(max_key(ft.emotion_scores)),
                       keyword_confidence(dict_get(ft.emotion_scores,
                                                   max_key(ft.emotion_scores), 0)),
                       "hi", FALSE)
       ELSE TextResult("return400", None, 0, "hi", FALSE)            \* line 138
  ELSE IF te.raises                                                  \* line 141
  THEN TextResult("fault", None, 0, "en", TRUE)                      \* 166-171
  ELSE IF te.scores # <<>> /\ \E i \in 1..Len(te.scores) : te.scores[i][2] # 0
  THEN IF ft.emotion_scores # <<>>                                   \* line 147
            /\ keyword_overrides(dict_get(ft.emotion_scores, max_key(ft.emotion_scores), 0),
                                 dict_get(te.scores, max_key(te.scores), 0))
       THEN TextResult("ok", Some(max_key(ft.emotion_scores)),       \* 151-152
                       keyword_confidence(dict_get(ft.emotion_scores,
                                                   max_key(ft.emotion_scores), 0)),
                       "en", TRUE)
       ELSE TextResult("ok", Some(max_key(te.scores)),               \* 154-158
                       dict_get(te.scores, max_key(te.scores), 0), "en", TRUE)
  ELSE IF ft.emotion_scores # <<>>                                   \* 160-163
  THEN TextResult("ok", Some(max_key(ft.emotion_scores)),
                  keyword_confidence(dict_get(ft.emotion_scores,
                                              max_key(ft.emotion_scores), 0)),
                  "en", TRUE)
  ELSE TextResult("return400", None, 0, "en", TRUE)                  \* line 165

(* Text emotion detection, lines 103-175. *)
TextDetection(data, te) == TextDecision(TextFeatures(data), te)

(* Variants of the fusion (see the properties). *)
Fusion_tie_as_facial(facial_emotion, facial_confidence, text_emotion, text_confidence) ==
  IF Truthy(facial_emotion) /\ Truthy(text_emotion)
  THEN IF facial_confidence >= text_confidence
       THEN [final_emotion |-> facial_emotion, confidence |-> facial_confidence,
             final_method |->
               "facial"]
       ELSE [final_emotion |-> text_emotion, confidence |-> text_confidence,
             final_method |->
               IF text_confidence > facial_confidence THEN "text" ELSE "combined"]
  ELSE IF Truthy(facial_emotion)
  THEN [final_emotion |-> facial_emotion, confidence |-> facial_confidence,
        final_method |-> "facial"]
  ELSE IF Truthy(text_emotion)
  THEN [final_emotion |-> text_emotion, confidence |-> text_confidence,
        final_method |-> "text"]
  ELSE [final_emotion |-> None, confidence |-> 0, final_method |-> "None"]

Fusion_facial_first(facial_emotion, facial_confidence, text_emotion, text_confidence) ==
  IF Truthy(facial_emotion) /\ Truthy(text_emotion)
  THEN IF facial_confidence >= 0
       THEN [final_emotion |-> facial_emotion, confidence |-> facial_confidence,
             final_method |->
               IF facial_confidence > text_confidence THEN "facial" ELSE "combined"]
       ELSE [final_emotion |-> text_emotion, confidence |-> text_confidence,
             final_method |->
               IF text_confidence > facial_confidence THEN "text" ELSE "combined"]
  ELSE IF Truthy(facial_emotion)
  THEN [final_emotion |-> facial_emotion, confidence |-> facial_confidence,
        final_method |-> "facial"]
  ELSE IF Truthy(text_emotion)
  THEN [final_emotion |-> text_emotion, confidence |-> text_confidence,
        final_method |-> "text"]
  ELSE [final_emotion |-> None, confidence |-> 0, final_method |-> "None"]

Fusion_default_neutral(facial_emotion, facial_confidence, text_emotion, text_confidence) ==
  IF Truthy(facial_emotion) /\ Truthy(text_emotion)
  THEN IF facial_confidence >= text_confidence
       THEN [final_emotion |-> facial_emotion, confidence |-> facial_confidence,
             final_method |->
               IF facial_confidence > text_confidence THEN "facial" ELSE "combined"]
       ELSE [final_emotion |-> text_emotion, confidence |-> text_confidence,
             final_method |->
               IF text_confidence > facial_confidence THEN "text" ELSE "combined"]
  ELSE IF Truthy(facial_emotion)
  THEN [final_emotion |-> facial_emotion, confidence |-> facial_confidence,
        final_method |-> "facial"]
  ELSE IF Truthy(text_emotion)
  THEN [final_emotion |-> text_emotion, confidence |-> text_confidence,
        final_method |-> "text"]
  ELSE [final_emotion |-> Some(neutral), confidence |-> 0, final_method |-> "None"]

(* Lines 177-200: the signal with the higher confidence when both are
   present. *)
Fusion(facial_emotion, facial_confidence, text_emotion, text_confidence) ==
  IF Truthy(facial_emotion) /\ Truthy(text_emotion)
  THEN IF facial_confidence >= text_confidence
       THEN [final_emotion |-> facial_emotion, confidence |-> facial_confidence,
             final_method |->
               IF facial_confidence > text_confidence THEN "facial" ELSE "combined"]
       ELSE [final_emotion |-> text_emotion, confidence |-> text_confidence,
             final_method |->
               IF text_confidence > facial_confidence THEN "text" ELSE "combined"]
  ELSE IF Truthy(facial_emotion)
  THEN [final_emotion |-> facial_emotion, confidence |-> facial_confidence,
        final_method |-> "facial"]
  ELSE IF Truthy(text_emotion)
  THEN [final_emotion |-> text_emotion, confidence |-> text_confidence,
        final_method |-> "text"]
  ELSE [final_emotion |-> None, confidence |-> 0, final_method |-> "None"]

(* A variant of the playlist provider (see the properties). *)
get_spotify_playlists_english_default(client, mood, language, search) ==
  IF client = "None"
  THEN IF language = "hi"
       THEN dict_get(sample_playlists_hi, mood,
                     dict_get(sample_playlists, chill, <<>>))
       ELSE dict_get(sample_playlists, mood,
                     dict_get(sample_playlists, chill, <<>>))
  ELSE IF search.raises THEN <<>>                                    \* 316-318
  ELSE [i \in 1..Len(search.items) |->                               \* 309-315
          [name |-> search.items[i].name,
           url |-> search.items[i].url,
           image |-> IF search.items[i].images # <<>>
                     THEN Some(search.items[i].images[1]) ELSE None]]

(* get_spotify_playlists(mood, language), lines 226-318.  client is the
   module's sp: "None" without credentials. *)
get_spotify_playlists(client, mood, language, search) ==
  IF client = "None"
  THEN IF language = "hi"
       THEN dict_get(sample_playlists_hi, mood,
                     dict_get(sample_playlists_hi, chill, <<>>))     \* line 247
       ELSE dict_get(sample_playlists, mood,
                     dict_get(sample_playlists, chill, <<>>))        \* line 291
  ELSE IF search.raises THEN <<>>                                    \* 316-318
  ELSE [i \in 1..Len(search.items) |->                               \* 309-315
          [name |-> search.items[i].name,
           url |-> search.items[i].url,
           image |-> IF search.items[i].images # <<>>
                     THEN Some(search.items[i].images[1]) ELSE None]]

(* The query of line 306. *)
search_query(mood) == dict_get(search_queries, mood, <<mood>>)[1]

NoResponse == [status |-> 0]

(* Whether the facial step, given an image, ended without a signal because
   a step of it failed (lines 65-66, 74-75, 94-97). *)
facial_failed(data, fenv) ==
  /\ data.has_image
  /\ \/ ~fenv.deepface
     \/ data.image # "picture"
     \/ fenv.analyze.raises
     \/ (fenv.analyze.is_list /\ fenv.analyze.results = <<>>)

(* Line 203: final_emotion.lower(). *)
emotion_not_lowered(final_emotion) == final_emotion

emotion_lower(final_emotion) == Lower(final_emotion)

(* Lines 202-224, reached when the text step did not return: the response
   for the fused signal fu, and whether get_spotify_playlists was called.
   An exception that leaves the handler is Flask's 500. *)
Respond(client, f, t, fu, search) ==
  IF ~Truthy(fu.final_emotion)                                       \* 222-224
  THEN [playlist_lookup |-> FALSE,
        response |->
          [status |-> 400,
           error |-> "Could not detect emotion. Please try again with clearer input."]]
  ELSE IF t.language = "unbound"                                     \* line 205
  THEN [playlist_lookup |-> FALSE,
        response |->
          [status |-> 500,
           error |-> "UnboundLocalError: local variable 'language' referenced before assignment"]]
  ELSE [playlist_lookup |-> TRUE,
        response |->
          [status |-> 200,                                           \* 203-221
           emotion |-> emotion_lower(fu.final_emotion[1]),
           mood |-> dict_get(emotion_to_mood, emotion_lower(fu.final_emotion[1]), chill),
           language |-> t.language,
           playlists |->
             get_spotify_playlists(client,
               dict_get(emotion_to_mood, emotion_lower(fu.final_emotion[1]), chill),
               t.language, search),
           method |-> fu.final_method,
           confidence |-> fu.confidence,
           facial_emotion |-> f.facial_emotion,
           facial_confidence |-> f.facial_confidence,
           text_emotion |-> t.text_emotion,
           text_confidence |-> t.text_confidence]]

(* The handler's way out, lines 50-224, from the results of its steps. *)
Response(client, f, t, fu, search) ==
  IF t.outcome = "return400"                                         \* 138, 165
  THEN [playlist_lookup |-> FALSE,
        response |->
          [status |-> 400,
           error |-> "Could not detect emotion from text. Please provide more descriptive text about your feelings."]]
  ELSE IF t.outcome = "fault"                                        \* line 171
  THEN [playlist_lookup |-> FALSE,
        response |->
          [status |-> 400, error |-> "Text analysis failed. Please try again.",
           exception |-> "te.get_emotion raised"]]
  ELSE Respond(client, f, t, fu, search)

(* What the handler computed and consulted on the way: its locals, the
   classifier answer it read (NoTe when te.get_emotion was not called), the
   search answer it read (NoSearch when sp.search was not called). *)
Trace(client, data, ft, f, t, fu, fenv, te, search, out) ==
  [facial_emotion |-> f.facial_emotion,
   facial_confidence |-> f.facial_confidence,
   features |-> ft,
   text |-> t,
   final_emotion |-> IF t.outcome \in {"skip", "ok"} THEN fu.final_emotion ELSE None,
   te |-> IF t.te_called THEN te ELSE NoTe,
   search |-> IF out.playlist_lookup /\ client # "None" THEN search ELSE NoSearch,
   facial_failed |-> facial_failed(data, fenv),
   playlist_lookup |-> out.playlist_lookup]

(* detect_emotion as a function of the request and of the collaborators'
   answers: its response. *)
detect_emotion_response(client, data, fenv, te, search) ==
  Response(client, FacialDetection(data, fenv), TextDetection(data, te),
           Fusion(FacialDetection(data, fenv).facial_emotion,
                  FacialDetection(data, fenv).facial_confidence,
                  TextDetection(data, te).text_emotion,
                  TextDetection(data, te).text_confidence),
           search).response

(***************************************************************************)
(* The application as a state machine.                                     *)
(***************************************************************************)
VARIABLES
  sp,        \* the module's Spotify client: "None" or "client" (lines 21-25)
  request,   \* the request being served: [route, data]
  response,  \* the handler's response, NoResponse while there is none
  did,       \* what the handler computed and consulted for this request
  call,      \* a direct call get_spotify_playlists(mood[, language]), or NoCall
  result     \* what that call returned, NoReturn while it has not

vars == <<sp, request, response, did, call, result>>

NoCall == [mood |-> <<>>, has_language |-> FALSE, language |-> "none", made |-> FALSE]

NoReturn == [returned |-> FALSE, playlists |-> <<>>, query |-> None]

NoRequest == [route |-> "none", data |-> NoBody]

Idle ==
  [facial_emotion |-> None, facial_confidence |-> 0,
   features |-> [taken |-> FALSE, text |-> <<>>, emotion_scores |-> <<>>,
                 is_hindi |-> FALSE],
   text |-> TextResult("skip", None, 0, "unbound", FALSE),
   final_emotion |-> None, te |-> NoTe, search |-> NoSearch,
   facial_failed |-> FALSE, playlist_lookup |-> FALSE]

(* Lines 17-25: sp is a client when both credentials are set, else None. *)
Init ==
  /\ sp \in {"None", "client"}
  /\ request = NoRequest
  /\ response = NoResponse
  /\ did = Idle
  /\ call = NoCall
  /\ result = NoReturn

(* A client posts to /detect_emotion (line 49). *)
Post ==
  /\ request = NoRequest
  /\ \E data \in Bodies : request' = [route |-> "/detect_emotion", data |-> data]
  /\ UNCHANGED <<sp, response, did, call, result>>

(* A client gets / (line 45). *)
Get ==
  /\ request = NoRequest
  /\ request' = [route |-> "/", data |-> NoBody]
  /\ UNCHANGED <<sp, response, did, call, result>>

(* index, lines 45-47. *)
index ==
  /\ request.route = "/"
  /\ response = NoResponse
  /\ response' = [status |-> 200, template |-> "index.html"]
  /\ UNCHANGED <<sp, request, did, call, result>>

(* detect_emotion, lines 49-224: the whole handler, for one choice of the
   collaborators' answers.  ft, t, f and fu are the handler's locals, each
   computed once. *)
detect_emotion ==
  /\ request.route = "/detect_emotion"
  /\ response = NoResponse
  /\ \E ft \in {TextFeatures(request.data)} :
     \E te \in TeEnvs(request.data) :
     \E t \in {TextDecision(ft, te)} :
     \E fenv \in FacialEnvs(request.data) :
     \E f \in {FacialDetection(request.data, fenv)} :
     \E fu \in {Fusion(f.facial_emotion, f.facial_confidence,
                       t.text_emotion, t.text_confidence)} :
     \E search \in SearchEnvs(sp) :
     \E out \in {Response(sp, f, t, fu, search)} :
       /\ response' = out.response
       /\ did' = Trace(sp, request.data, ft, f, t, fu, fenv, te, search, out)
  /\ UNCHANGED <<sp, request, call, result>>

(* The response is sent and the request is over. *)
Done ==
  /\ response # NoResponse
  /\ request' = NoRequest
  /\ response' = NoResponse
  /\ did' = Idle
  /\ UNCHANGED <<sp, call, result>>

Next == Post \/ Get \/ index \/ detect_emotion \/ Done

Spec == Init /\ [][Next]_vars

(***************************************************************************)
(* get_spotify_playlists called on its own, for every mood and language.   *)
(***************************************************************************)
(* Moods a caller can pass: the values of emotion_to_mood, and strings that
   are none of them. *)
CallMoods ==
  {emotion_to_mood[i][2] : i \in 1..Len(emotion_to_mood)} \cup {angry, contempt, <<>>}

Calls ==
  [mood : CallMoods, has_language : {TRUE}, language : {"en", "hi", "fr"}, made : {TRUE}]
    \cup [mood : CallMoods, has_language : {FALSE}, language : {"none"}, made : {TRUE}]

InitPlaylists ==
  /\ sp \in {"None", "client"}
  /\ request = NoRequest
  /\ response = NoResponse
  /\ did = Idle
  /\ call \in Calls
  /\ result = NoReturn

(* The call of get_spotify_playlists, lines 226-318; language defaults to
   'en' (line 226). *)
get_playlists ==
  /\ call.made
  /\ ~result.returned
  /\ \E search \in SearchEnvs(sp) :
       result' =
         [returned |-> TRUE,
          playlists |-> get_spotify_playlists(sp, call.mood,
                          IF call.has_language THEN call.language ELSE "en", search),
          query |-> IF sp = "None" THEN None ELSE Some(search_query(call.mood))]
  /\ UNCHANGED <<sp, request, response, did, call>>

NextPlaylists == get_playlists

SpecPlaylists == InitPlaylists /\ [][NextPlaylists]_vars

(***************************************************************************)
(* Properties.                                                             *)
(***************************************************************************)
(* The vocabularies of the data model. *)
EmotionVocabulary ==
  {happy, sad, angry, fear, surprise, neutral, disgust, joy, anticipation, trust,
   positive, negative, worry, love}

MoodVocabulary == {happy, sad, energetic, calm, excited, chill, dark, romantic}

(* detect_emotion has answered the request. *)
Answered == request.route = "/detect_emotion" /\ response # NoResponse

(* The facial step produced a label; the text step produced a label. *)
FacialPresent == did.facial_emotion # None /\ did.facial_emotion[1] # <<>>

TextPresent == did.text.text_emotion # None /\ did.text.text_emotion[1] # <<>>

(* The request's text field is missing, empty or whitespace-only. *)
TextBlank ==
  \/ ~request.data.has_text
  \/ \A i \in 1..Len(request.data.text) : IsSpace(request.data.text[i])

(* The text field is there and yields no emotion, without a fault: no
   keyword matched and the classifier, where it was asked, had no non-zero
   score. *)
TextYieldsNothing ==
  /\ ~TextBlank
  /\ did.features.emotion_scores = <<>>
  /\ ~did.te.raises
  /\ \A i \in 1..Len(did.te.scores) : did.te.scores[i][2] = 0

(* The response is the 200 response for the facial signal. *)
AnswersFacialSignal ==
  /\ response.status = 200
  /\ response.emotion = Lower(did.facial_emotion[1])
  /\ response.confidence = did.facial_confidence

(* The response is the 200 response for the text signal. *)
AnswersTextSignal ==
  /\ response.status = 200
  /\ response.emotion = Lower(did.text.text_emotion[1])
  /\ response.confidence = did.text.text_confidence

(* C1: a request with only a facial signal (a facial label, and the text
   missing, empty or whitespace-only) gets a 200 response with method
   "facial", the lower-cased facial label and the facial confidence. *)
C1_FacialOnly ==
  (Answered /\ FacialPresent /\ TextBlank)
    => (AnswersFacialSignal /\ response.method = "facial")

(* C2: 400 is answered only when neither modality yields an emotion or when
   text analysis raises; with a facial signal present, a text that yields
   no emotion does not make the response a 400: the result is the facial
   signal's. *)
C2_Only400WithoutSignal ==
  /\ (Answered /\ response.status = 400)
       => ((~FacialPresent /\ ~TextPresent) \/ did.te.raises)
  /\ (Answered /\ FacialPresent /\ TextYieldsNothing)
       => (AnswersFacialSignal /\ response.method = "facial")

(* C3: with both signals present and facial confidence >= text confidence,
   the response carries the facial label and confidence; method is "facial"
   when the facial confidence is strictly greater, "combined" when the two
   are equal. *)
C3_FacialWins ==
  (Answered /\ FacialPresent /\ TextPresent
     /\ did.facial_confidence >= did.text.text_confidence)
    => /\ AnswersFacialSignal
       /\ response.method =
            IF did.facial_confidence > did.text.text_confidence
            THEN "facial" ELSE "combined"

(* C3's case: both signals, equal confidences, answered as "combined". *)
C3_Witness ==
  /\ Answered /\ FacialPresent /\ TextPresent
  /\ did.facial_confidence = did.text.text_confidence
  /\ did.facial_emotion # did.text.text_emotion
  /\ response.status = 200
  /\ response.method = "combined"

(* A code point of the Devanagari block, U+0900..U+097F, occurs in w. *)
HasDevanagari(w) == \E k \in 1..Len(w) : w[k] >= 2304 /\ w[k] <= 2431

(* The text the keywords are looked up in. *)
LookedUpText == Strip(Lower(request.data.text))

(* How many keywords of table row i occur in text; the same for the row's
   Devanagari keywords alone. *)
KeywordCount(i, text) ==
  Cardinality({j \in 1..Len(emotion_keywords[i].keywords) :
                 Contains(emotion_keywords[i].keywords[j], text)})

HindiKeywordCount(i, text) ==
  Cardinality({j \in 1..Len(emotion_keywords[i].keywords) :
                 /\ HasDevanagari(emotion_keywords[i].keywords[j])
                 /\ Contains(emotion_keywords[i].keywords[j], text)})

(* The counts of all rows, in table order. *)
RECURSIVE KeywordCounts(_, _)
KeywordCounts(text, i) ==
  IF i > Len(emotion_keywords) THEN <<>>
  ELSE <<KeywordCount(i, text)>> \o KeywordCounts(text, i + 1)

RECURSIVE HindiKeywordCounts(_, _)
HindiKeywordCounts(text, i) ==
  IF i > Len(emotion_keywords) THEN <<>>
  ELSE <<HindiKeywordCount(i, text)>> \o HindiKeywordCounts(text, i + 1)

(* The first position of the greatest number of a non-empty tuple. *)
ArgMax(c) == CHOOSE i \in 1..Len(c) : \A j \in 1..Len(c) : c[j] < c[i] \/ (c[j] = c[i] /\ i <= j)

(* The text signal is the keyword signal of the counts c: the label of the
   first greatest count with confidence min(count/5, 1.0), or no signal
   when nothing was counted. *)
TextSignalIsKeywordSignal(c) ==
  IF c[ArgMax(c)] > 0
  THEN /\ did.text.text_emotion = <<emotion_keywords[ArgMax(c)].key>>
       /\ did.text.text_confidence =
            (IF c[ArgMax(c)] >= 5 THEN 10000 ELSE c[ArgMax(c)] * 2000)
  ELSE did.text.text_emotion = None

(* C4 as stated: for a text with a Devanagari code point the language is
   "hi", the classifier is not consulted, and the text signal comes from the
   Hindi keywords only: English keywords in the text add to no count. *)
C4_HindiTableOnly ==
  (Answered /\ request.data.has_text /\ HasDevanagari(request.data.text))
    => /\ did.text.language = "hi"
       /\ ~did.text.te_called
       /\ \A c \in {HindiKeywordCounts(LookedUpText, 1)} : TextSignalIsKeywordSignal(c)

(* C4 amended: for a text with a Devanagari code point the language is "hi"
   (so is the language of a 200 response), the classifier is not consulted,
   and the text signal comes from the keyword counts of the one table, whose
   lists hold the English and the Hindi keywords of a label alike: the
   label of the first greatest count, confidence min(count/5, 1.0); with no
   keyword of either script in the text the answer is 400. *)
C4_HindiKeywordsOnly ==
  (Answered /\ request.data.has_text /\ HasDevanagari(request.data.text))
    => /\ did.text.language = "hi"
       /\ response.status = 200 => response.language = "hi"
       /\ ~did.text.te_called
       /\ did.te = NoTe
       /\ \A c \in {KeywordCounts(LookedUpText, 1)} :
            /\ TextSignalIsKeywordSignal(c)
            /\ c[ArgMax(c)] = 0 => response.status = 400

(* C4's case: a Hindi text in which an English keyword is counted too, and
   another with more than five keywords of one label. *)
C4_Witness ==
  /\ Answered /\ request.data.has_text /\ HasDevanagari(request.data.text)
  /\ response.status = 200
  /\ response.language = "hi"
  /\ response.method = "text"
  /\ \E i \in 1..Len(emotion_keywords) :
       /\ HindiKeywordCount(i, LookedUpText) > 0
       /\ KeywordCount(i, LookedUpText) > 5
       /\ response.confidence = 10000

(* The classifier's answer as C5 reads it: teScore is its greatest score (0
   for an empty answer), teLabel the first label that has it. *)
TeScore ==
  IF did.te.scores = <<>> THEN 0
  ELSE did.te.scores[ArgMax([i \in 1..Len(did.te.scores) |-> did.te.scores[i][2]])][2]

TeLabel == did.te.scores[ArgMax([i \in 1..Len(did.te.scores) |-> did.te.scores[i][2]])][1]

(* The keyword counts as C5 reads them: kwScore the greatest count of the
   labels that matched, kwLabel the first label that has it. *)
KwScore ==
  IF did.features.emotion_scores = <<>> THEN 0
  ELSE did.features.emotion_scores[
         ArgMax([i \in 1..Len(did.features.emotion_scores) |->
                   did.features.emotion_scores[i][2]])][2]

KwLabel ==
  did.features.emotion_scores[
    ArgMax([i \in 1..Len(did.features.emotion_scores) |->
              did.features.emotion_scores[i][2]])][1]

TextSignalIs(label, confidence) ==
  did.text.text_emotion = <<label>> /\ did.text.text_confidence = confidence

(* C5: for an English text, the text signal is the classifier's
   (teLabel, teScore) when no keyword matched; the keywords'
   (kwLabel, min(kwScore/5, 1.0)) when kwScore >= 2 or when kwScore > 0 and
   teScore < 0.3, an all-zero classifier answer included; and the
   classifier's when kwScore = 1 and teScore >= 0.3. *)
C5_EnglishSelection ==
  (Answered /\ ~TextBlank /\ ~HasDevanagari(request.data.text) /\ ~did.te.raises)
    => /\ did.text.te_called
       /\ (KwScore = 0 /\ TeScore > 0) => TextSignalIs(TeLabel, TeScore)
       /\ (KwScore >= 2 \/ (KwScore > 0 /\ TeScore < 3000))
            => TextSignalIs(KwLabel, IF KwScore >= 5 THEN 10000 ELSE KwScore * 2000)
       /\ (KwScore = 1 /\ TeScore >= 3000) => TextSignalIs(TeLabel, TeScore)

(* C5's case: one keyword against a classifier score of exactly 0.3: the
   classifier's label stands. *)
C5_Witness ==
  /\ Answered /\ ~TextBlank /\ ~HasDevanagari(request.data.text)
  /\ KwScore = 1
  /\ TeScore = 3000
  /\ KwLabel # Lower(TeLabel)
  /\ did.text.text_emotion = <<TeLabel>>
  /\ response.status = 200

(* C6: with a text signal and the facial signal absent or of strictly lower
   confidence, the response is 200 with method "text", the lower-cased text
   label and the text confidence. *)
C6_TextWins ==
  (Answered /\ TextPresent
     /\ (~FacialPresent \/ did.facial_confidence < did.text.text_confidence))
    => (AnswersTextSignal /\ response.method = "text")

(* C6's case: a facial signal of lower, non-zero confidence loses to the
   text signal. *)
C6_Witness ==
  /\ Answered /\ TextPresent /\ FacialPresent
  /\ did.facial_confidence > 0
  /\ did.facial_confidence < did.text.text_confidence
  /\ Lower(did.facial_emotion[1]) # Lower(did.text.text_emotion[1])
  /\ response.status = 200
  /\ response.method = "text"

(* C7: with no facial signal and a text that yields no emotion (no text,
   blank text, or no keyword and no classifier score), the response is a
   400 with an error message, and get_spotify_playlists is not called. *)
C7_NoSignal400 ==
  (Answered /\ ~FacialPresent /\ (TextBlank \/ TextYieldsNothing))
    => /\ response.status = 400
       /\ response.error # ""
       /\ ~did.playlist_lookup

(* C7's case: an image whose facial step gave nothing and a text with no
   keyword and an all-zero classifier answer. *)
C7_Witness ==
  /\ Answered /\ ~FacialPresent /\ TextYieldsNothing
  /\ request.data.has_image
  /\ Len(did.te.scores) = 5
  /\ response.status = 400

(* C8: the mood mapping is total and case-insensitive.  The table maps each
   of the 14 labels of EmotionVocabulary to one member of MoodVocabulary;
   the mood of a 200 response is the table's mood for the lower-cased final
   label, whatever its letter case, and "chill" for a label outside the
   vocabulary; so it is always a member of MoodVocabulary. *)
C8_MoodTotal ==
  /\ Len(emotion_to_mood) = Cardinality(EmotionVocabulary)
  /\ {emotion_to_mood[i][1] : i \in 1..Len(emotion_to_mood)} = EmotionVocabulary
  /\ {emotion_to_mood[i][2] : i \in 1..Len(emotion_to_mood)} \subseteq MoodVocabulary
  /\ (Answered /\ response.status = 200)
       => /\ response.mood \in MoodVocabulary
          /\ \A i \in 1..Len(emotion_to_mood) :
               Lower(did.final_emotion[1]) = emotion_to_mood[i][1]
                 => response.mood = emotion_to_mood[i][2]
          /\ Lower(did.final_emotion[1]) \notin EmotionVocabulary
               => response.mood = chill

(* C8's case: a label in upper case whose mood is not the default. *)
C8_Witness ==
  /\ Answered /\ response.status = 200
  /\ did.final_emotion = <<Upper_LOVE>>
  /\ response.emotion = love
  /\ response.mood = romantic

(* C9: a failed facial step (DeepFace missing, image not decodable, the
   classifier raising) leaves no facial signal and no error of its own: the
   response is the one the same request gets without the image, and a text
   that yields an emotion is answered 200 with method "text". *)
C9_FacialFailureAbsorbed ==
  (Answered /\ did.facial_failed)
    => /\ did.facial_emotion = None
       /\ did.facial_confidence = 0
       /\ response.status # 500
       /\ TextPresent => (AnswersTextSignal /\ response.method = "text")
       /\ response =
            detect_emotion_response(sp,
              [request.data EXCEPT !.has_image = FALSE, !.image = "none"],
              [deepface |-> FALSE, analyze |-> NoAnalyze], did.te, did.search)

(* C9's case: a picture on which the classifier raised, with a text that
   yields an emotion. *)
C9_Witness ==
  /\ Answered /\ did.facial_failed
  /\ request.data.image = "picture"
  /\ TextPresent
  /\ response.status = 200
  /\ response.method = "text"
  /\ response.facial_emotion = None

(* The language a direct call runs with, and the table of that language. *)
CallLanguage == IF call.has_language THEN call.language ELSE "en"

TableOf(language) == IF language = "hi" THEN sample_playlists_hi ELSE sample_playlists

BucketsOf(language) == {TableOf(language)[i][1] : i \in 1..Len(TableOf(language))}

ListOf(language, mood) ==
  TableOf(language)[CHOOSE i \in 1..Len(TableOf(language)) :
                      TableOf(language)[i][1] = mood][2]

ThreeDescriptors(playlists) ==
  /\ Len(playlists) = 3
  /\ \A i \in 1..Len(playlists) : playlists[i].name # "" /\ playlists[i].url # ""

(* C10 as stated: offline, for every mood and language in {en, hi} the call
   returns 3 descriptors with non-empty name and url, the list of the
   (mood, language) bucket; the "chill" list of the language stands in only
   for a mood outside MoodVocabulary. *)
C10_BucketPerMood ==
  (result.returned /\ sp = "None" /\ CallLanguage \in {"en", "hi"})
    => /\ ThreeDescriptors(result.playlists)
       /\ call.mood \in MoodVocabulary
            => /\ call.mood \in BucketsOf(CallLanguage)
               /\ result.playlists = ListOf(CallLanguage, call.mood)
       /\ call.mood \notin MoodVocabulary
            => result.playlists = ListOf(CallLanguage, chill)

(* C10 amended: offline, for every mood and language in {en, hi} the call
   returns 3 descriptors with non-empty name and url: the list of the
   (mood, language) bucket when the language's table has that bucket, else
   the "chill" list of the language.  The English table has the eight moods
   of MoodVocabulary; the Hindi table has happy, sad and chill only, so for
   "hi" the chill list also stands in for energetic, calm, excited, romantic
   and dark. *)
C10_BucketOrChill ==
  /\ BucketsOf("en") = MoodVocabulary
  /\ BucketsOf("hi") = {happy, sad, chill}
  /\ (result.returned /\ sp = "None" /\ CallLanguage \in {"en", "hi"})
       => /\ ThreeDescriptors(result.playlists)
          /\ call.mood \in BucketsOf(CallLanguage)
               => result.playlists = ListOf(CallLanguage, call.mood)
          /\ call.mood \notin BucketsOf(CallLanguage)
               => result.playlists = ListOf(CallLanguage, chill)

(* C10's case: a recognized mood without a Hindi bucket. *)
C10_Witness ==
  /\ result.returned /\ sp = "None"
  /\ call.has_language /\ call.language = "hi"
  /\ call.mood = romantic
  /\ result.playlists = ListOf("hi", chill)
  /\ result.playlists # ListOf("en", chill)

(***************************************************************************)
(* Keyword scoring.                                                        *)
(***************************************************************************)
(* The positions at which keyword starts in text, and how many there are. *)
OccurrencesAt(keyword, text) ==
  {p \in 1..(Len(text) - Len(keyword) + 1) :
     \A k \in 1..Len(keyword) : text[p + k - 1] = keyword[k]}

Occurrences(keyword, text) == Cardinality(OccurrencesAt(keyword, text))

(* The sum of the occurrences of the keywords i.. of a list. *)
RECURSIVE OccurrenceSum(_, _, _)
OccurrenceSum(keywords, text, i) ==
  IF i > Len(keywords) THEN 0
  ELSE Occurrences(keywords[i], text) + OccurrenceSum(keywords, text, i + 1)

(* How many keywords of a list occur in text at least once. *)
KeywordsPresent(keywords, text) ==
  Cardinality({j \in 1..Len(keywords) : Occurrences(keywords[j], text) > 0})

(* The mapping the scoring step built holds label with count n. *)
Scored(label, n) ==
  \E k \in 1..Len(did.features.emotion_scores) :
     did.features.emotion_scores[k] = <<label, n>>

(* The labels of the mapping, each of them once. *)
ScoredLabels ==
  {did.features.emotion_scores[k][1] : k \in 1..Len(did.features.emotion_scores)}

ScoredOnce ==
  Cardinality(ScoredLabels) = Len(did.features.emotion_scores)

(* The scoring step ran and the handler went on to line 128. *)
ScoringDone == Answered /\ ~TextBlank

(* C11 as stated: the count of a label is the number of substring
   occurrences, in the lower-cased trimmed text, of the keywords of the
   label's list, every occurrence of a keyword counted; labels with count 0
   are left out, and a text matching nothing yields the empty mapping
   without failing. *)
C11_OccurrenceCounts ==
  ScoringDone =>
    /\ ScoredOnce
    /\ did.text.language \in {"en", "hi"}
    /\ \A i \in 1..Len(emotion_keywords) :
         \A n \in {OccurrenceSum(emotion_keywords[i].keywords, LookedUpText, 1)} :
            IF n > 0 THEN Scored(emotion_keywords[i].key, n)
            ELSE emotion_keywords[i].key \notin ScoredLabels

(* C11 amended: the count of a label is the number of keywords of the
   label's list that occur at least once as a substring of the lower-cased
   trimmed text: a keyword occurring several times is counted once, a
   keyword contained in another matched keyword is counted as well; labels
   with count 0 are left out, and a text matching nothing yields the empty
   mapping without failing. *)
C11_KeywordsPresent ==
  ScoringDone =>
    /\ ScoredOnce
    /\ ScoredLabels \subseteq {emotion_keywords[i].key : i \in 1..Len(emotion_keywords)}
    /\ did.text.language \in {"en", "hi"}
    /\ \A i \in 1..Len(emotion_keywords) :
         \A n \in {KeywordsPresent(emotion_keywords[i].keywords, LookedUpText)} :
            IF n > 0 THEN Scored(emotion_keywords[i].key, n)
            ELSE emotion_keywords[i].key \notin ScoredLabels
    /\ (\A i \in 1..Len(emotion_keywords) :
          \A j \in 1..Len(emotion_keywords[i].keywords) :
             Occurrences(emotion_keywords[i].keywords[j], LookedUpText) = 0)
         => did.features.emotion_scores = <<>>

(* C11's case: a text in which a keyword occurs twice and lies inside
   another keyword of the same list that occurs too; the label is scored
   with the number of its keywords present, which is at least 2 and less
   than the number of occurrences, and a label with no keyword in the text
   is left out. *)
C11_Witness ==
  /\ ScoringDone
  /\ \E i \in 1..Len(emotion_keywords) :
       /\ \E j1, j2 \in 1..Len(emotion_keywords[i].keywords) :
            /\ j1 # j2
            /\ Occurrences(emotion_keywords[i].keywords[j1], LookedUpText) >= 2
            /\ Occurrences(emotion_keywords[i].keywords[j2], LookedUpText) >= 1
            /\ Occurrences(emotion_keywords[i].keywords[j1],
                           emotion_keywords[i].keywords[j2]) >= 1
       /\ \E n \in 2..Len(emotion_keywords[i].keywords) :
            /\ Scored(emotion_keywords[i].key, n)
            /\ n < OccurrenceSum(emotion_keywords[i].keywords, LookedUpText, 1)
  /\ \E i \in 1..Len(emotion_keywords) : emotion_keywords[i].key \notin ScoredLabels

=============================================================================
